---- MODULE Spec2Model ----
(***************************************************************************)
(* A model of imgbasics: the contour functions of contours.py              *)
(* (contour_coords, contour_properties, closest_contour) and imcrop of     *)
(* cropping.py.  Every function is a synchronous call: a state holds the   *)
(* arguments the caller passes (the caller's own objects), the position of *)
(* the call (pc) and what the call gave back (ret).                        *)
(*                                                                         *)
(* Numbers.  The code computes in IEEE doubles, and so does the model:    *)
(* every float operation of the code is one operation of the model, which *)
(* gives the double nearest to the exact result (FAdd, FSub, FMul, FDiv,   *)
(* FSqrt, FHypot), the operations taken in the order of the code.  The    *)
(* claims compare these doubles with reference values in exact rationals. *)
(*                                                                         *)
(* Arrays.  A numpy array is [shape, data]: its shape and its elements in  *)
(* row-major order.                                                        *)
(***************************************************************************)
EXTENDS Integers, Sequences, FiniteSets, TLC

VARIABLES
    fn,         \* the function being called
    pc,         \* "call" before the call runs, "done" after; imcrop also waits: "ginput", "rinput", "pause"
    contour,    \* contour_coords: the contour argument (caller's array)
    contours,   \* closest_contour: the list of contours (caller's list of arrays)
    position,   \* closest_contour: the position (x, y)
    edge,       \* closest_contour: the edge flag
    source,     \* contour_coords / closest_contour: the source tag
    x,          \* contour_properties: the caller's x array
    y,          \* contour_properties: the caller's y array
    img,        \* imcrop: args[0]
    cropzone,   \* imcrop: args[1] as <<x, y, w, h>>, or <<>> when imcrop(img) is called
    draggable,  \* imcrop: the draggable keyword
    clicks,     \* imcrop: the clicks list filled by the ginput loop
    selected,   \* imcrop: the local cropzone of line 199, <<>> before
    ret         \* what the call returned or raised

vars == <<fn, pc, contour, contours, position, edge, source, x, y,
          img, cropzone, draggable, clicks, selected, ret>>

----------------------------------------------------------------------------
(* Whole numbers, and the exact rationals of the reference values.         *)

Abs(n) == IF n < 0 THEN -n ELSE n

Sign(n) == IF n < 0 THEN -1 ELSE IF n > 0 THEN 1 ELSE 0

RECURSIVE Gcd(_, _)
Gcd(a, b) == IF b = 0 THEN a ELSE Gcd(b, a % b)

\* The rational n / d (d # 0) in lowest terms, den > 0.
Rat(n, d) ==
    LET g == Gcd(Abs(n), Abs(d))
        s == IF d < 0 THEN -1 ELSE 1
    IN  [num |-> s * (n \div g), den |-> s * (d \div g)]

RECURSIVE IntSum(_)
IntSum(s) == IF s = <<>> THEN 0 ELSE s[1] + IntSum(Tail(s))

\* A new 1-D array holding the elements of f, each computed once.
Array1D(f) == SubSeq(f, 1, Len(f))

----------------------------------------------------------------------------
(* Natural numbers of any size: the limbs of n in base 2^LimbBits, lowest  *)
(* first, without high zero limbs (<<>> is 0).                             *)

LimbBits == 14

Base == 16384

BLimb(a, i) == IF i <= Len(a) THEN a[i] ELSE 0

BRest(a) == IF a = <<>> THEN a ELSE Tail(a)

RECURSIVE BTrim(_)
BTrim(a) ==
    IF a = <<>> \/ a[Len(a)] # 0 THEN a ELSE BTrim(SubSeq(a, 1, Len(a) - 1))

RECURSIVE BFromNat(_)
BFromNat(n) == IF n = 0 THEN <<>> ELSE <<n % Base>> \o BFromNat(n \div Base)

\* a + b + c for a carry c.
RECURSIVE BAddC(_, _, _)
BAddC(a, b, c) ==
    IF a = <<>> /\ b = <<>>
    THEN IF c = 0 THEN <<>> ELSE <<c>>
    ELSE LET s == BLimb(a, 1) + BLimb(b, 1) + c
         IN  <<s % Base>> \o BAddC(BRest(a), BRest(b), s \div Base)

BAdd(a, b) == BAddC(a, b, 0)

\* a - b - c for a >= b + c, before the high zero limbs are dropped.
RECURSIVE BSubC(_, _, _)
BSubC(a, b, c) ==
    IF a = <<>> THEN <<>>
    ELSE LET d == a[1] - BLimb(b, 1) - c
         IN  <<IF d < 0 THEN d + Base ELSE d>>
               \o BSubC(Tail(a), BRest(b), IF d < 0 THEN 1 ELSE 0)

BSub(a, b) == BTrim(BSubC(a, b, 0))

\* -1, 0, 1 as a < b, a = b, a > b.
RECURSIVE BCmpFrom(_, _, _)
BCmpFrom(a, b, i) ==
    IF i = 0 THEN 0
    ELSE IF a[i] < b[i] THEN -1
    ELSE IF a[i] > b[i] THEN 1
    ELSE BCmpFrom(a, b, i - 1)

BCmp(a, b) ==
    IF Len(a) < Len(b) THEN -1
    ELSE IF Len(a) > Len(b) THEN 1
    ELSE BCmpFrom(a, b, Len(a))

\* a * k + c for 0 < k <= Base and a carry c < Base.
RECURSIVE BMulSmallC(_, _, _)
BMulSmallC(a, k, c) ==
    IF a = <<>>
    THEN IF c = 0 THEN <<>> ELSE <<c>>
    ELSE LET p == a[1] * k + c
         IN  <<p % Base>> \o BMulSmallC(Tail(a), k, p \div Base)

RECURSIVE BMul(_, _)
BMul(a, b) ==
    IF a = <<>> \/ b = <<>> THEN <<>>
    ELSE LET rest == BMul(a, Tail(b))
             high == IF rest = <<>> THEN rest ELSE <<0>> \o rest
         IN  IF b[1] = 0 THEN high ELSE BAdd(BMulSmallC(a, b[1], 0), high)

\* The quotient (limbs up to i) and the remainder of (r * Base^i + a mod Base^i)
\* by k, for 0 < k <= Base and r < k.
RECURSIVE BDivSmallFrom(_, _, _, _)
BDivSmallFrom(a, k, i, r) ==
    LET Join(low, q) == [q |-> Append(low.q, q), r |-> low.r]
    IN  IF i = 0 THEN [q |-> <<>>, r |-> r]
        ELSE Join(BDivSmallFrom(a, k, i - 1, (r * Base + a[i]) % k),
                  (r * Base + a[i]) \div k)

BDivSmall(a, k) ==
    LET Trimmed(d) == [q |-> BTrim(d.q), r |-> d.r]
    IN  Trimmed(BDivSmallFrom(a, k, Len(a), 0))

\* a * 2^k and the whole part of a / 2^k.
BShl(a, k) ==
    IF a = <<>> THEN a
    ELSE [i \in 1..(k \div LimbBits) |-> 0] \o BMulSmallC(a, 2^(k % LimbBits), 0)

BShr(a, k) ==
    IF k \div LimbBits >= Len(a) THEN <<>>
    ELSE BDivSmall(SubSeq(a, k \div LimbBits + 1, Len(a)), 2^(k % LimbBits)).q

\* Whether one of the k lowest bits of a is set; bit i of a (bit 0 the lowest).
BLowBits(a, k) ==
    \/ \E i \in 1..Len(a) : i <= k \div LimbBits /\ a[i] # 0
    \/ BLimb(a, k \div LimbBits + 1) % 2^(k % LimbBits) # 0

BBit(a, i) == (BLimb(a, i \div LimbBits + 1) \div 2^(i % LimbBits)) % 2

\* The number of bits of a, and the number of its low zero bits (a > 0).
BitLen(a) ==
    IF a = <<>> THEN 0
    ELSE LimbBits * (Len(a) - 1)
           + (CHOOSE k \in 1..LimbBits : a[Len(a)] \div 2^(k - 1) = 1)

LowZeros(a) ==
    LET i == CHOOSE j \in 1..Len(a) : a[j] # 0 /\ \A l \in 1..(j - 1) : a[l] = 0
    IN  LimbBits * (i - 1)
          + (CHOOSE k \in 0..(LimbBits - 1) : (a[i] \div 2^k) % 2 = 1 /\ a[i] % 2^k = 0)

\* The limbs of the quotient of (r * Base^i + n mod Base^i) by d and the
\* remainder, for r < d and d of two limbs or more whose highest limb is at
\* least Base / 2: long division, each limb of the quotient guessed from the
\* highest limbs (never too low, at most 2 too high) and lowered until it fits.
RECURSIVE BFitLimb(_, _, _)
BFitLimb(r, d, q) ==
    LET Fit(p) == IF BCmp(p, r) > 0 THEN BFitLimb(r, d, q - 1)
                  ELSE [q |-> q, r |-> BSub(r, p)]
    IN  IF q = 0 THEN [q |-> 0, r |-> r] ELSE Fit(BMulSmallC(d, q, 0))

RECURSIVE BDivFrom(_, _, _, _)
BDivFrom(n, d, i, r) ==
    LET Join(low, q) == [q |-> Append(low.q, q), r |-> low.r]
        Lower(fit) == Join(BDivFrom(n, d, i - 1, fit.r), fit.q)
        Guess(r1, q0) == Lower(BFitLimb(r1, d, IF q0 >= Base THEN Base - 1 ELSE q0))
        Limb(r1) == Guess(r1, (BLimb(r1, Len(d) + 1) * Base + BLimb(r1, Len(d)))
                                \div d[Len(d)])
    IN  IF i = 0 THEN [q |-> <<>>, r |-> r]
        ELSE Limb(IF r = <<>> /\ n[i] = 0 THEN r ELSE <<n[i]>> \o r)

\* The quotient and the remainder of n by d > 0.
BDiv(n, d) ==
    LET Small(qr) == [q |-> qr.q, r |-> BFromNat(qr.r)]
        Shifted(qr, s) == [q |-> BTrim(qr.q), r |-> BShr(qr.r, s)]
        Divide(n1, d1, s) == Shifted(BDivFrom(n1, d1, Len(n1), <<>>), s)
        Shift(s) == Divide(BShl(n, s), BShl(d, s), s)
    IN  IF Len(d) = 1 THEN Small(BDivSmall(n, d[1]))
        ELSE Shift(LimbBits - (BitLen(d) - LimbBits * (Len(d) - 1)))

\* floor(sqrt(v)) for v < Base^2: r the root so far, bits k - 1 .. 0 to find.
RECURSIVE NatSqrt(_, _, _)
NatSqrt(v, r, k) ==
    IF k = 0 THEN r
    ELSE IF (r + 2^(k - 1)) * (r + 2^(k - 1)) <= v
    THEN NatSqrt(v, r + 2^(k - 1), k - 1)
    ELSE NatSqrt(v, r, k - 1)

\* floor(sqrt(n)) and whether n is not a square, for n of 8 limbs whose
\* highest is at least Base / 4.  The root of the 2 highest limbs gives the
\* root of the 4 highest, which gives the root of n: each time the next limbs
\* of the root are the quotient of the remainder so far by twice the root so
\* far, and the root found is the right one or 1 over it.
BSqrt(n) ==
    LET \* root s and remainder r of the 2 highest limbs v
        Root2(v, s) == [s |-> s, r |-> v - s * s]
        \* of the 4 highest limbs, from those of the 2 highest
        Fix4(s, r) == IF r < 0 THEN [s |-> s - 1, r |-> r + 2 * s - 1]
                      ELSE [s |-> s, r |-> r]
        Quot4(s, m) == Fix4(s * Base + m \div (2 * s),
                            (m % (2 * s)) * Base + n[5]
                               - (m \div (2 * s)) * (m \div (2 * s)))
        Root4(sr) == Quot4(sr.s, sr.r * Base + n[6])
        \* of n, from those of the 4 highest
        Fix8(s, low, qq) ==
            IF BCmp(low, qq) < 0
            THEN [s |-> BSub(s, <<1>>),
                  inexact |-> BAdd(low, BSub(BShl(s, 1), <<1>>)) # qq]
            ELSE [s |-> s, inexact |-> low # qq]
        Quot8(s, d) == Fix8(BAdd(<<0, 0>> \o BFromNat(s), d.q),
                            BTrim(<<n[1], n[2]>> \o d.r), BMul(d.q, d.q))
        Root8(sr) == Quot8(sr.s, BDiv(BTrim(<<n[3], n[4]>> \o BFromNat(sr.r)),
                                      BFromNat(2 * sr.s)))
    IN  Root8(Root4(Root2(n[8] * Base + n[7],
                          NatSqrt(n[8] * Base + n[7], 0, LimbBits))))

----------------------------------------------------------------------------
(* IEEE doubles (float, np.float64).  A finite double is                  *)
(* (-1)^neg * man * 2^exp with man odd and below 2^53, or man = 0 (and    *)
(* exp = 0) for the zeros 0.0 and -0.0; cls is "fin", "inf" or "nan".      *)
(* Every operation gives the double nearest to the exact result, halves   *)
(* to the even significand.  The values of the model stay far inside the  *)
(* range of normal doubles: overflow and subnormals are not modelled.     *)

Precision == 53

FZero(neg) == [cls |-> "fin", neg |-> neg, man |-> <<>>, exp |-> 0]

FInf(neg) == [cls |-> "inf", neg |-> neg, man |-> <<>>, exp |-> 0]

FNaN == [cls |-> "nan", neg |-> FALSE, man |-> <<>>, exp |-> 0]

IsFinite(a) == a.cls = "fin"

IsNaN(a) == a.cls = "nan"

IsZero(a) == a.cls = "fin" /\ a.man = <<>>

\* (-1)^neg * m * 2^e, exactly, for m of at most Precision bits.
Fin(neg, m, e) ==
    LET Odd(z) == [cls |-> "fin", neg |-> neg, man |-> BShr(m, z), exp |-> e + z]
    IN  IF m = <<>> THEN FZero(neg) ELSE Odd(LowZeros(m))

\* The double nearest to (-1)^neg * (m + f) * 2^e, where 0 < f < 1 if 'inexact'
\* and f = 0 if not (m of more than Precision bits if inexact): the d lowest
\* bits of m are dropped, and 1 is added to the rest q if they are more than
\* half of 2^d, or half of it with q odd.
Round(neg, m, e, inexact) ==
    LET Up(q, d) ==
            /\ BBit(m, d - 1) = 1
            /\ (inexact \/ BLowBits(m, d - 1) \/ BBit(q, 0) = 1)
        Nearest(q, d) ==
            Fin(neg, IF Up(q, d) THEN BAddC(q, <<>>, 1) ELSE q, e + d)
        Drop(d) == IF d <= 0 THEN Fin(neg, m, e) ELSE Nearest(BShr(m, d), d)
    IN  Drop(BitLen(m) - Precision)

\* float(n) for an integer n.
FromInt(n) == Fin(n < 0, BFromNat(IF n < 0 THEN -n ELSE n), 0)

FNeg(a) == [a EXCEPT !.neg = (a.cls # "nan") /\ ~a.neg]

FAbs(a) == [a EXCEPT !.neg = FALSE]

\* The position of the highest bit of a finite non-zero double.
Top(a) == a.exp + BitLen(a.man)

\* -1, 0, 1 as |a| < |b|, |a| = |b|, |a| > |b|, for finite a and b.
MagCmp(a, b) ==
    IF a.man = <<>> \/ b.man = <<>>
    THEN (IF a.man = <<>> THEN 0 ELSE 1) - (IF b.man = <<>> THEN 0 ELSE 1)
    ELSE IF Top(a) < Top(b) THEN -1
    ELSE IF Top(a) > Top(b) THEN 1
    ELSE LET e == IF a.exp < b.exp THEN a.exp ELSE b.exp
         IN  BCmp(BShl(a.man, a.exp - e), BShl(b.man, b.exp - e))

\* a < b and a == b as the floats compare (nan compares false, -0.0 == 0.0).
FLess(a, b) ==
    IF a.cls = "nan" \/ b.cls = "nan" THEN FALSE
    ELSE IF a.cls = "inf" THEN a.neg /\ ~(b.cls = "inf" /\ b.neg)
    ELSE IF b.cls = "inf" THEN ~b.neg
    ELSE IF IsZero(a) /\ IsZero(b) THEN FALSE
    ELSE IF a.neg # b.neg THEN a.neg
    ELSE IF a.neg THEN MagCmp(a, b) > 0 ELSE MagCmp(a, b) < 0

FEq(a, b) ==
    /\ a.cls # "nan" /\ b.cls # "nan"
    /\ \/ a = b
       \/ IsZero(a) /\ IsZero(b)

\* a + b.
FAdd(a, b) ==
    IF a.cls = "nan" \/ b.cls = "nan" THEN FNaN
    ELSE IF a.cls = "inf"
    THEN IF b.cls = "inf" /\ a.neg # b.neg THEN FNaN ELSE a
    ELSE IF b.cls = "inf" THEN b
    ELSE IF a.man = <<>>
    THEN IF b.man = <<>> THEN FZero(a.neg /\ b.neg) ELSE b
    ELSE IF b.man = <<>> THEN a
    ELSE IF Top(a) - Top(b) > Precision + 3 THEN a
    ELSE IF Top(b) - Top(a) > Precision + 3 THEN b
    ELSE LET \* the mantissas ma, mb at the exponent e; c compares them
             Sum(ma, mb, e, c) ==
                 IF a.neg # b.neg /\ c = 0 THEN FZero(FALSE)
                 ELSE Round(IF a.neg = b.neg \/ c > 0 THEN a.neg ELSE b.neg,
                            IF a.neg = b.neg THEN BAdd(ma, mb)
                            ELSE IF c > 0 THEN BSub(ma, mb) ELSE BSub(mb, ma),
                            e, FALSE)
             Aligned(ma, mb, e) == Sum(ma, mb, e, BCmp(ma, mb))
             Align(e) == Aligned(BShl(a.man, a.exp - e), BShl(b.man, b.exp - e), e)
         IN  Align(IF a.exp < b.exp THEN a.exp ELSE b.exp)

\* a - b.
FSub(a, b) == FAdd(a, FNeg(b))

\* a * b.
FMul(a, b) ==
    IF a.cls = "nan" \/ b.cls = "nan" THEN FNaN
    ELSE IF a.cls = "inf" \/ b.cls = "inf"
    THEN IF IsZero(a) \/ IsZero(b) THEN FNaN ELSE FInf(a.neg # b.neg)
    ELSE Round(a.neg # b.neg, BMul(a.man, b.man), a.exp + b.exp, FALSE)

\* a / b, numpy's true division: x / 0.0 is a signed infinity, nan for 0.0 / 0.0
\* (with a RuntimeWarning, no exception).
FDiv(a, b) ==
    IF a.cls = "nan" \/ b.cls = "nan" THEN FNaN
    ELSE IF a.cls = "inf"
    THEN IF b.cls = "inf" THEN FNaN ELSE FInf(a.neg # b.neg)
    ELSE IF b.cls = "inf" THEN FZero(a.neg # b.neg)
    ELSE IF b.man = <<>>
    THEN IF a.man = <<>> THEN FNaN ELSE FInf(a.neg # b.neg)
    ELSE IF a.man = <<>> THEN FZero(a.neg # b.neg)
    ELSE LET Quotient(d, k) ==
                 Round(a.neg # b.neg, d.q, a.exp - b.exp - k, d.r # <<>>)
             Shift(k) == Quotient(BDiv(BShl(a.man, k), b.man), k)
             Bits(k) == Shift(IF k > 0 THEN k ELSE 0)
         IN  Bits(Precision + 2 + BitLen(b.man) - BitLen(a.man))

\* The double nearest to sqrt(m * 2^e) for m > 0: the root of the 111 or 112
\* highest bits of m * 2^t, t of the parity of e; the bits left out only tell
\* whether the root is exact.
SqrtRound(m, e) ==
    LET Root(rt, t) ==
            Round(FALSE, rt.s, (e - t) \div 2,
                  rt.inexact \/ (t < 0 /\ BLowBits(m, -t)))
        Shift(t) == Root(BSqrt(IF t >= 0 THEN BShl(m, t) ELSE BShr(m, -t)), t)
        Parity(t0) == Shift(t0 - ((e - t0) % 2))
    IN  Parity(8 * LimbBits - BitLen(m))

\* np.sqrt(a).
FSqrt(a) ==
    IF a.cls = "nan" THEN FNaN
    ELSE IF a.cls = "fin" /\ a.man = <<>> THEN a
    ELSE IF a.neg THEN FNaN
    ELSE IF a.cls = "inf" THEN a
    ELSE SqrtRound(a.man, a.exp)

\* np.hypot(a, b): the double nearest to sqrt(a^2 + b^2).
FHypot(a, b) ==
    IF a.cls = "inf" \/ b.cls = "inf" THEN FInf(FALSE)
    ELSE IF a.cls = "nan" \/ b.cls = "nan" THEN FNaN
    ELSE IF a.man = <<>> THEN FAbs(b)
    ELSE IF b.man = <<>> THEN FAbs(a)
    ELSE LET Squares(ma, mb, e) ==
                 SqrtRound(BAdd(BMul(ma, ma), BMul(mb, mb)), 2 * e)
             Align(e) == Squares(BShl(a.man, a.exp - e), BShl(b.man, b.exp - e), e)
         IN  Align(IF a.exp < b.exp THEN a.exp ELSE b.exp)

\* np.sum of a 1-D array of doubles: the elements added one after the other
\* from the first (arrays of fewer than 8 elements; numpy adds longer ones by
\* blocks).  np.sum of no element is 0.0.
RECURSIVE FSum(_)
FSum(s) ==
    IF s = <<>> THEN FZero(FALSE)
    ELSE IF Len(s) = 1 THEN s[1]
    ELSE FAdd(FSum(SubSeq(s, 1, Len(s) - 1)), s[Len(s)])

\* The 1-D array of whole numbers s as doubles.
FloatSeq(s) == Array1D([i \in 1..Len(s) |-> FromInt(s[i])])

\* np.mean of a 1-D array of whole numbers: the sum in doubles over the length.
FMean(s) == FDiv(FSum(FloatSeq(s)), FromInt(Len(s)))

----------------------------------------------------------------------------
(* numpy arrays: [shape |-> <<d1, ..., dk>>, data |-> row-major elements]. *)

RECURSIVE Prod(_)
Prod(s) == IF s = <<>> THEN 1 ELSE s[1] * Prod(Tail(s))

NotOne(d) == d # 1

\* ndarray.squeeze(): every axis of length 1 is dropped, the data is shared.
squeeze(a) == [shape |-> SelectSeq(a.shape, NotOne), data |-> a.data]

\* Whether a[:, k] raises IndexError: fewer than two axes, or k outside axis 1.
ColRaises(a, k) == Len(a.shape) < 2 \/ k >= a.shape[2]

\* a[:, k] for 0 <= k < shape[1]: axis 1 is dropped.
Col(a, k) ==
    LET n     == a.shape[1]
        m     == a.shape[2]
        rest  == SubSeq(a.shape, 3, Len(a.shape))
        inner == Prod(rest)
    IN  [shape |-> <<n>> \o rest,
         data  |-> [j \in 1..(n * inner) |->
                      a.data[(((j - 1) \div inner) * m + k) * inner
                             + ((j - 1) % inner) + 1]]]

Return(v) == [kind |-> "return", value |-> v, exc |-> ""]

Raise(e) == [kind |-> "raise", value |-> <<>>, exc |-> e]

----------------------------------------------------------------------------
(* contours.py                                                             *)

\* contour_coords(contour, source).  Both indexings of a branch raise the same
\* IndexError, so their order does not show.
\* contour_coords taking every tag other than 'opencv' as 'scikit'.
contour_coords_default_scikit(c, src) ==
    IF src = "opencv"
    THEN LET s == squeeze(c)
         IN  IF ColRaises(s, 0) \/ ColRaises(s, 1)
             THEN Raise("IndexError")
             ELSE Return(<<Col(s, 0), Col(s, 1)>>)
    ELSE IF ColRaises(c, 1) \/ ColRaises(c, 0)
    THEN Raise("IndexError")
    ELSE Return(<<Col(c, 1), Col(c, 0)>>)

contour_coords(c, src) ==
    IF src = "scikit"
    THEN IF ColRaises(c, 1) \/ ColRaises(c, 0)
         THEN Raise("IndexError")
         ELSE Return(<<Col(c, 1), Col(c, 0)>>)
    ELSE IF src = "opencv"
    THEN LET s == squeeze(c)
         IN  IF ColRaises(s, 0) \/ ColRaises(s, 1)
             THEN Raise("IndexError")
             ELSE Return(<<Col(s, 0), Col(s, 1)>>)
    ELSE Raise("ValueError")

\* np.diff(np.append(s, s[0])): s[i+1] - s[i], the last one back to s[0].
LoopedDiff(s) ==
    Array1D([i \in 1..Len(s) |-> FSub(IF i = Len(s) THEN s[1] ELSE s[i + 1], s[i])])

\* Line 87 with the sign of the sum reversed (x * dy - y * dx): a faulty variant.
SignedAreaReversed(xs, ys, dx, dy) ==
    FDiv(FSum(Array1D([i \in 1..Len(xs) |->
                 FSub(FMul(xs[i], dy[i]), FMul(ys[i], dx[i]))])), FromInt(2))

\* Line 87: area = np.sum(y * dx - x * dy) / 2.
SignedArea(xs, ys, dx, dy) ==
    FDiv(FSum(Array1D([i \in 1..Len(xs) |->
                 FSub(FMul(ys[i], dx[i]), FMul(xs[i], dy[i]))])), FromInt(2))

\* Line 88: perimeter = np.sum(np.sqrt(dx**2 + dy**2)).
Perimeter(dx, dy) ==
    FSum(Array1D([i \in 1..Len(dx) |->
           FSqrt(FAdd(FMul(dx[i], dx[i]), FMul(dy[i], dy[i])))]))

\* Line 91 without its last term dx**2 * dy / 12: a faulty variant.
MomentATrapezoid(xs, ys, dx, dy) ==
    FSum(Array1D([i \in 1..Len(xs) |->
           FAdd(FDiv(FSub(FMul(ys[i], FMul(dx[i], dx[i])),
                          FMul(FMul(xs[i], xs[i]), dy[i])), FromInt(4)),
                FDiv(FMul(FMul(xs[i], ys[i]), dx[i]), FromInt(2)))]))

\* Line 91: Ma = np.sum((y * dx**2 - x**2 * dy) / 4 + x * y * dx / 2 + dx**2 * dy / 12).
MomentA(xs, ys, dx, dy) ==
    FSum(Array1D([i \in 1..Len(xs) |->
           FAdd(FAdd(
             FDiv(FSub(FMul(ys[i], FMul(dx[i], dx[i])),
                       FMul(FMul(xs[i], xs[i]), dy[i])), FromInt(4)),
             FDiv(FMul(FMul(xs[i], ys[i]), dx[i]), FromInt(2))),
             FDiv(FMul(FMul(dx[i], dx[i]), dy[i]), FromInt(12)))]))

\* Line 92: Mb = np.sum((y**2 * dx - x * dy**2) / 4 - x * y * dy / 2 - dy**2 * dx / 12).
MomentB(xs, ys, dx, dy) ==
    FSum(Array1D([i \in 1..Len(xs) |->
           FSub(FSub(
             FDiv(FSub(FMul(FMul(ys[i], ys[i]), dx[i]),
                       FMul(xs[i], FMul(dy[i], dy[i]))), FromInt(4)),
             FDiv(FMul(FMul(xs[i], ys[i]), dy[i]), FromInt(2))),
             FDiv(FMul(FMul(dy[i], dy[i]), dx[i]), FromInt(12)))]))

\* contour_properties(x, y) for 1-D arrays x, y of whole numbers, of equal
\* length >= 1.  The results are doubles.
contour_properties(xa, ya) ==
    LET \* lines 95-102
        Result(xm, ym, area, perimeter, Ma, Mb) ==
            Return([centroid  |-> <<FAdd(FDiv(Ma, area), xm),
                                    FAdd(FDiv(Mb, area), ym)>>,
                    perimeter |-> perimeter,
                    area      |-> area])
        \* lines 87-92
        Sums(xm, ym, xs, ys, dx, dy) ==
            Result(xm, ym, SignedArea(xs, ys, dx, dy), Perimeter(dx, dy),
                   MomentA(xs, ys, dx, dy), MomentB(xs, ys, dx, dy))
        \* lines 81-84
        Diffs(xm, ym, xs, ys) == Sums(xm, ym, xs, ys, LoopedDiff(xs), LoopedDiff(ys))
        \* lines 77-78: x = x - xm, y = y - ym
        Shift(xm, ym) ==
            Diffs(xm, ym,
                  Array1D([i \in 1..Len(xa) |-> FSub(FromInt(xa[i]), xm)]),
                  Array1D([i \in 1..Len(ya) |-> FSub(FromInt(ya[i]), ym)]))
    \* lines 76: xm, ym = np.mean(x), np.mean(y)
    IN  Shift(FMean(xa), FMean(ya))

\* The built-in min(seq) and ndarray.min() over doubles: the first of the
\* smallest elements.
RECURSIVE PyMin(_)
PyMin(s) ==
    IF Len(s) = 1 THEN s[1]
    ELSE LET m == PyMin(SubSeq(s, 1, Len(s) - 1))
         IN  IF FLess(s[Len(s)], m) THEN s[Len(s)] ELSE m

\* list.index(v): the first (1-based) index holding a value equal to v.
PyIndex(s, v) ==
    CHOOSE i \in 1..Len(s) : FEq(s[i], v) /\ \A j \in 1..(i - 1) : ~FEq(s[j], v)

\* A faulty variant of the distance: the edge flag is not looked at.
ContourDistCentreOnly(xcont, ycont, pos, edg) ==
    FHypot(FSub(FromInt(pos[1]), FMean(xcont.data)),
           FSub(FromInt(pos[2]), FMean(ycont.data)))

\* The distance closest_contour appends to dists for one contour decoded as
\* the 1-D arrays xcont, ycont (lines 143-148).
ContourDist(xcont, ycont, pos, edg) ==
    IF ~edg
    THEN FHypot(FSub(FromInt(pos[1]), FMean(xcont.data)),
                FSub(FromInt(pos[2]), FMean(ycont.data)))
    ELSE PyMin(Array1D([i \in 1..Len(xcont.data) |->
                 FHypot(FSub(FromInt(xcont.data[i]), FromInt(pos[1])),
                        FSub(FromInt(ycont.data[i]), FromInt(pos[2])))]))

\* The loop of closest_contour for two or more contours (lines 134-152).  The
\* result also records 'decoded', the number of turns of the loop begun: each
\* calls contour_coords once and, when that returns, computes one distance.
closest_loop(cs, pos, edg, src) ==
    LET coords  == [i \in 1..Len(cs) |-> contour_coords(cs[i], src)]
        failing == {i \in 1..Len(cs) : coords[i].kind = "raise"}
    IN  IF failing # {}
        THEN LET i == CHOOSE k \in failing : \A j \in failing : k <= j
             IN  [kind |-> "raise", value |-> <<>>, exc |-> coords[i].exc,
                  decoded |-> i]
        ELSE LET Pick(imin) == [kind |-> "return", value |-> cs[imin],
                                   exc |-> "", decoded |-> Len(cs)]
                 Least(dists) == Pick(PyIndex(dists, PyMin(dists)))
             IN  Least(Array1D([i \in 1..Len(cs) |->
                          ContourDist(coords[i].value[1], coords[i].value[2],
                                      pos, edg)]))

\* raise ContourError('No Contours Available'), no contour decoded.
NoContoursAvailable ==
    [kind |-> "raise", value |-> <<>>, exc |-> "ContourError",
     msg |-> "No Contours Available", decoded |-> 0]

\* A faulty closest_contour: no early return for a single contour.
closest_contour_always_loops(cs, pos, edg, src) ==
    IF Len(cs) = 0
    THEN NoContoursAvailable
    ELSE closest_loop(cs, pos, edg, src)

\* A faulty closest_contour without its test of an empty list: min() of no
\* distances raises ValueError.
closest_contour_unchecked(cs, pos, edg, src) ==
    IF Len(cs) = 0
    THEN [kind |-> "raise", value |-> <<>>, exc |-> "ValueError",
          msg |-> "min() arg is an empty sequence", decoded |-> 0]
    ELSE IF Len(cs) = 1
    THEN [kind |-> "return", value |-> cs[1], exc |-> "", decoded |-> 0]
    ELSE closest_loop(cs, pos, edg, src)

\* closest_contour(contours, position, edge, source).
closest_contour(cs, pos, edg, src) ==
    IF Len(cs) = 0
    THEN NoContoursAvailable
    ELSE IF Len(cs) = 1
    THEN [kind |-> "return", value |-> cs[1], exc |-> "", decoded |-> 0]
    ELSE closest_loop(cs, pos, edg, src)

----------------------------------------------------------------------------
(* cropping.py                                                             *)

\* A faulty variant of the slice: the stop index is taken too (w + 1 by h + 1).
PySliceInclusive(start, stop, n) ==
    LET lo == IF start < 0 THEN (IF start + n < 0 THEN 0 ELSE start + n)
              ELSE (IF start > n THEN n ELSE start)
        hi == IF stop + 1 < 0 THEN (IF stop + 1 + n < 0 THEN 0 ELSE stop + 1 + n)
              ELSE (IF stop + 1 > n THEN n ELSE stop + 1)
    IN  IF hi > lo THEN [i \in 1..(hi - lo) |-> lo + i - 1] ELSE <<>>

\* The indices (0-based) a[start:stop] selects on an axis of length n.
PySlice(start, stop, n) ==
    LET lo == IF start < 0 THEN (IF start + n < 0 THEN 0 ELSE start + n)
              ELSE (IF start > n THEN n ELSE start)
        hi == IF stop < 0 THEN (IF stop + n < 0 THEN 0 ELSE stop + n)
              ELSE (IF stop > n THEN n ELSE stop)
    IN  IF hi > lo THEN [i \in 1..(hi - lo) |-> lo + i - 1] ELSE <<>>

\* img[ymin: ymin + h, xmin: xmin + w] (line 216); trailing axes are kept.
Crop(im, xmin, ymin, w, h) ==
    LET sy    == im.shape[1]
        sx    == im.shape[2]
        rest  == SubSeq(im.shape, 3, Len(im.shape))
        inner == Prod(rest)
        rows  == PySlice(ymin, ymin + h, sy)
        cols  == PySlice(xmin, xmin + w, sx)
        nr    == Len(rows)
        nc    == Len(cols)
    IN  [shape |-> <<nr, nc>> \o rest,
         data  |-> [j \in 1..(nr * nc * inner) |->
                      LET r == rows[((j - 1) \div (nc * inner)) + 1]
                          c == cols[(((j - 1) \div inner) % nc) + 1]
                          k == (j - 1) % inner
                      IN  im.data[(r * sx + c) * inner + k + 1]]]

\* Click coordinates are floats; the model holds them in units of 1/ClickRes
\* pixel.  round(k / ClickRes) as Python rounds: to nearest, halves to even.
ClickRes == 4

PyRound(k) ==
    LET q == k \div ClickRes
        r == k % ClickRes
    IN  IF 2 * r < ClickRes THEN q
        ELSE IF 2 * r > ClickRes THEN q + 1
        ELSE IF q % 2 = 0 THEN q ELSE q + 1

\* A faulty variant: the two values in the order of the clicks.
Unsorted2(a, b) == <<a, b>>

\* sorted((a, b)).
Sorted2(a, b) == IF b < a THEN <<b, a>> ELSE <<a, b>>

\* Lines 192-199: the crop zone of a selection x_min..x_max, y_min..y_max.
Selection(x_min, x_max, y_min, y_max) ==
    LET xmin == PyRound(x_min)
        xmax == PyRound(x_max)
        ymin == PyRound(y_min)
        ymax == PyRound(y_max)
    IN  <<xmin, ymin, xmax - xmin + 1, ymax - ymin + 1>>

\* imcrop(img, cropzone): the imperative call.
imcrop_imperative(im, zone) == Return(Crop(im, zone[1], zone[2], zone[3], zone[4]))

\* Lines 185-199 of imcrop(img): the crop zone of the two clicks.
cropzone_clicks(cl) ==
    LET xs == Sorted2(cl[1][1], cl[2][1])
        ys == Sorted2(cl[1][2], cl[2][2])
    IN  Selection(xs[1], xs[2], ys[1], ys[2])

\* Lines 158-161 and 192-199 of imcrop(img, draggable=True): the crop zone of
\* the rectangle r = (x, y, width, height) rinput gave.
cropzone_rect(r) == Selection(r[1], r[1] + r[3], r[2], r[2] + r[4])

\* Lines 216-221 of the interactive call: the crop of the image as it is then,
\* and the zone.
imcrop_interactive(im, zone) ==
    Return(<<Crop(im, zone[1], zone[2], zone[3], zone[4]), zone>>)

Channels(a) == IF Len(a.shape) = 3 THEN a.shape[3] ELSE 1

\* The value a handler of the figure writes to the image.
Written == 0

\* img[0, 0] = Written, done by a handler of the figure: the image is the
\* caller's array, which the call holds without a copy (line 119).
WriteTopLeft(im) ==
    [im EXCEPT !.data = [j \in 1..Len(im.data) |->
                           IF j <= Channels(im) THEN Written ELSE im.data[j]]]

----------------------------------------------------------------------------
(* The calls: arguments a caller can pass, and one action per call.        *)

\* Bounds of the argument sets.
MaxTotalPts == 3    \* the contours of a collection have at most MaxTotalPts vertices in all
MaxVertices == 4    \* a polygon has 1..MaxVertices vertices
MaxSide == 2        \* an image has 1..MaxSide rows and columns
MaxPairPts == 3     \* a contour of the synthetic pair has 1..MaxPairPts vertices

\* The coordinates of the vertices of contours and of the position.
Coords == {0, 1}

\* The coordinates of the vertices of polygons.
PolyCoords == {0, 1, 2}

Points == Coords \X Coords

\* The contours of 1..t vertices, as sequences of points <<x, y>>.
PointSeqs(t) == UNION {[1..n -> Points] : n \in 1..t}

\* The collections of contours of at most t vertices in all.
RECURSIVE Collections(_)
Collections(t) ==
    {<<>>} \cup UNION {{<<c>> \o rest : rest \in Collections(t - Len(c))} :
                         c \in PointSeqs(t)}

Sources == {"scikit", "opencv", "other"}

\* Values of 'source' given to contour_coords: Sources, and tags that differ
\* from a recognized one by case, an added space, or are empty.
Tags == Sources \cup {"Scikit", "OPENCV", "opencv ", "skimage", ""}

Encodings == {"scikit", "opencv"}

\* What the contour finders give for the points pts (each <<x, y>>):
\* skimage.measure.find_contours an (N, 2) array of rows (y, x),
\* cv2.findContours an (N, 1, 2) array of (x, y).
EncodeScikit(pts) ==
    [shape |-> <<Len(pts), 2>>,
     data  |-> [j \in 1..(2 * Len(pts)) |->
                  IF j % 2 = 1 THEN pts[(j + 1) \div 2][2] ELSE pts[j \div 2][1]]]

EncodeOpencv(pts) ==
    [shape |-> <<Len(pts), 1, 2>>,
     data  |-> [j \in 1..(2 * Len(pts)) |->
                  IF j % 2 = 1 THEN pts[(j + 1) \div 2][1] ELSE pts[j \div 2][2]]]

Encode(enc, pts) == IF enc = "scikit" THEN EncodeScikit(pts) ELSE EncodeOpencv(pts)

\* An image of sy rows and sx columns, grayscale or with 3 colour channels,
\* every element distinct.
MakeImage(sy, sx, colour) ==
    [shape |-> IF colour THEN <<sy, sx, 3>> ELSE <<sy, sx>>,
     data  |-> [j \in 1..(sy * sx * (IF colour THEN 3 ELSE 1)) |-> j]]

NoArray == [shape |-> <<0>>, data |-> <<>>]

NoRet == [kind |-> "none", value |-> <<>>, exc |-> ""]

NoCoordsArgs == contour = NoArray

NoClosestArgs == contours = <<>> /\ position = <<0, 0>> /\ edge = FALSE

NoPropsArgs == x = <<>> /\ y = <<>>

NoCropArgs ==
    /\ img = NoArray /\ cropzone = <<>> /\ draggable = FALSE
    /\ clicks = <<>> /\ selected = <<>>

InitCoords ==
    /\ fn = "contour_coords" /\ pc = "call" /\ ret = NoRet
    /\ \E enc \in Encodings, pts \in PointSeqs(MaxTotalPts) : contour = Encode(enc, pts)
    /\ source \in Tags
    /\ NoClosestArgs /\ NoPropsArgs /\ NoCropArgs

InitProps ==
    /\ fn = "contour_properties" /\ pc = "call" /\ ret = NoRet
    /\ \E n \in 1..MaxVertices :
          /\ x \in [1..n -> PolyCoords]
          /\ y \in [1..n -> PolyCoords]
    /\ source = "scikit"
    /\ NoCoordsArgs /\ NoClosestArgs /\ NoCropArgs

InitClosest ==
    /\ fn = "closest_contour" /\ pc = "call" /\ ret = NoRet
    /\ \E enc \in Encodings, ps \in Collections(MaxTotalPts) :
          contours = [i \in 1..Len(ps) |-> Encode(enc, ps[i])]
    /\ position \in Points
    /\ edge \in BOOLEAN
    /\ source \in Sources
    /\ NoCoordsArgs /\ NoPropsArgs /\ NoCropArgs

InitCrop ==
    /\ fn = "imcrop" /\ pc = "call" /\ ret = NoRet
    /\ \E sy \in 1..MaxSide, sx \in 1..MaxSide, colour \in BOOLEAN :
          /\ img = MakeImage(sy, sx, colour)
          /\ \/ cropzone = <<>> /\ draggable \in BOOLEAN
             \/ /\ cropzone \in (-1..sx) \X (-1..sy) \X (0..(sx + 1)) \X (0..(sy + 1))
                /\ draggable = FALSE
    /\ clicks = <<>> /\ selected = <<>>
    /\ source = "scikit"
    /\ NoCoordsArgs /\ NoClosestArgs /\ NoPropsArgs

\* What the caller's arguments hold after a call.  contour_coords rebinds its
\* local name to a view (line 36), contour_properties builds new arrays
\* (lines 77-78) and closest_contour only iterates and indexes its list:
\* none writes through to the caller's objects.
contour_after_coords(c, src) == c

arrays_after_properties(xa, ya) == <<xa, ya>>

\* A faulty variant: the single contour is taken with contours.pop().
contours_after_pop(cs, pos, edg, src) == IF Len(cs) = 1 THEN <<>> ELSE cs

contours_after_closest(cs, pos, edg, src) == cs

CallContourCoords ==
    /\ fn = "contour_coords" /\ pc = "call"
    /\ ret' = contour_coords(contour, source)
    /\ contour' = contour_after_coords(contour, source)
    /\ pc' = "done"
    /\ UNCHANGED <<fn, contours, position, edge, source, x, y,
                   img, cropzone, draggable, clicks, selected>>

CallContourProperties ==
    /\ fn = "contour_properties" /\ pc = "call"
    /\ ret' = contour_properties(x, y)
    /\ x' = arrays_after_properties(x, y)[1]
    /\ y' = arrays_after_properties(x, y)[2]
    /\ pc' = "done"
    /\ UNCHANGED <<fn, contour, contours, position, edge, source,
                   img, cropzone, draggable, clicks, selected>>

CallClosestContour ==
    /\ fn = "closest_contour" /\ pc = "call"
    /\ ret' = closest_contour(contours, position, edge, source)
    /\ contours' = contours_after_closest(contours, position, edge, source)
    /\ pc' = "done"
    /\ UNCHANGED <<fn, contour, position, edge, source, x, y,
                   img, cropzone, draggable, clicks, selected>>

\* The points of the axes a click can land on, in 1/ClickRes pixel: imshow
\* draws the image from -1/2 to size - 1/2 on each axis.
ClickRange(size) == (-(ClickRes \div 2))..(ClickRes * size - (ClickRes \div 2))

\* imcrop(img, cropzone): lines 122-129 and 214-219.
ImcropImperative ==
    /\ fn = "imcrop" /\ pc = "call" /\ Len(cropzone) = 4
    /\ ret' = imcrop_imperative(img, cropzone)
    /\ pc' = "done"
    /\ UNCHANGED <<fn, contour, contours, position, edge, source, x, y,
                   img, cropzone, draggable, clicks, selected>>

\* imcrop(img): lines 122-163, up to the first wait for the user.  The other
\* keywords have their defaults (closefig=True).
ImcropInteractive ==
    /\ fn = "imcrop" /\ pc = "call" /\ Len(cropzone) = 0
    /\ pc' = IF draggable THEN "rinput" ELSE "ginput"
    /\ UNCHANGED <<fn, contour, contours, position, edge, source, x, y,
                   img, cropzone, draggable, clicks, selected, ret>>

\* One turn of the loop of lines 168-183: ginput gives a click.  After the
\* second one the call runs on to plt.pause (lines 185-204).
Ginput ==
    /\ fn = "imcrop" /\ pc = "ginput"
    /\ \E x_click \in ClickRange(img.shape[2]), y_click \in ClickRange(img.shape[1]) :
          LET cl == Append(clicks, <<x_click, y_click>>)
          IN  /\ clicks' = cl
              /\ IF Len(cl) = 2
                 THEN selected' = cropzone_clicks(cl) /\ pc' = "pause"
                 ELSE UNCHANGED <<selected, pc>>
    /\ UNCHANGED <<fn, contour, contours, position, edge, source, x, y,
                   img, cropzone, draggable, ret>>

\* rinput gives the dragged rectangle (x, y, width, height); the call runs on
\* to plt.pause (lines 158-161, 192-204).
Rinput ==
    /\ fn = "imcrop" /\ pc = "rinput"
    /\ \E x_min \in ClickRange(img.shape[2]), y_min \in ClickRange(img.shape[1]) :
          \E x_max \in {v \in ClickRange(img.shape[2]) : v >= x_min},
             y_max \in {v \in ClickRange(img.shape[1]) : v >= y_min} :
             selected' = cropzone_rect(<<x_min, y_min, x_max - x_min, y_max - y_min>>)
    /\ pc' = "pause"
    /\ UNCHANGED <<fn, contour, contours, position, edge, source, x, y,
                   img, cropzone, draggable, clicks, ret>>

\* ginput, rinput and plt.pause (line 204) run the event loop of the figure:
\* while the call waits in one of them, a handler can run and write to the
\* image.  The model has one handler, which writes img[0, 0] once.
GuiEvent ==
    /\ fn = "imcrop" /\ pc \in {"ginput", "rinput", "pause"}
    /\ img.data[1] # Written
    /\ img' = WriteTopLeft(img)
    /\ UNCHANGED <<fn, pc, contour, contours, position, edge, source, x, y,
                   cropzone, draggable, clicks, selected, ret>>

\* The pause is over: the figure is closed and the image as it is now is
\* cropped and returned with the zone (lines 204-221).
CloseAndCrop ==
    /\ fn = "imcrop" /\ pc = "pause"
    /\ ret' = imcrop_interactive(img, selected)
    /\ pc' = "done"
    /\ UNCHANGED <<fn, contour, contours, position, edge, source, x, y,
                   img, cropzone, draggable, clicks, selected>>

Init == InitCoords \/ InitProps \/ InitClosest \/ InitCrop

Next ==
    \/ CallContourCoords
    \/ CallContourProperties
    \/ CallClosestContour
    \/ ImcropImperative
    \/ ImcropInteractive
    \/ Ginput
    \/ Rinput
    \/ GuiEvent
    \/ CloseAndCrop

Spec == Init /\ [][Next]_vars

\* One function at a time.
SpecCoords == InitCoords /\ [][CallContourCoords]_vars

SpecProps == InitProps /\ [][CallContourProperties]_vars

SpecClosest == InitClosest /\ [][CallClosestContour]_vars

NextCrop ==
    \/ ImcropImperative
    \/ ImcropInteractive
    \/ Ginput
    \/ Rinput
    \/ GuiEvent
    \/ CloseAndCrop

SpecCrop == InitCrop /\ [][NextCrop]_vars

\* The synthetic pair of the specification: a contour whose vertices have the
\* mean (0, 0), a contour whose vertices have the mean (100, 100), both as
\* (N, 2) arrays passed with the default source, and the position (1, 1).
PairVerticesA ==
    {<<0, 0>>, <<1, 1>>, <<-1, -1>>, <<3, 0>>, <<-3, 0>>, <<0, 300>>, <<0, -300>>}

PairVerticesB ==
    {<<100, 100>>, <<99, 99>>, <<101, 101>>, <<2, 2>>, <<198, 198>>,
     <<100, 400>>, <<100, -200>>}

PairSeqs(V, c) ==
    {ps \in UNION {[1..n -> V] : n \in 1..MaxPairPts} :
        \A k \in 1..2 : IntSum([i \in 1..Len(ps) |-> ps[i][k]]) = c[k] * Len(ps)}

InitPair ==
    /\ fn = "closest_contour" /\ pc = "call" /\ ret = NoRet
    /\ \E pa \in PairSeqs(PairVerticesA, <<0, 0>>),
          pb \in PairSeqs(PairVerticesB, <<100, 100>>) :
          contours = <<EncodeScikit(pa), EncodeScikit(pb)>>
    /\ position = <<1, 1>>
    /\ edge \in BOOLEAN
    /\ source = "scikit"
    /\ NoCoordsArgs /\ NoPropsArgs /\ NoCropArgs

SpecPair == InitPair /\ [][CallClosestContour]_vars

\* The three contour functions together.
InitContours == InitCoords \/ InitProps \/ InitClosest

NextContours == CallContourCoords \/ CallContourProperties \/ CallClosestContour

SpecContours == InitContours /\ [][NextContours]_vars

----------------------------------------------------------------------------
(* What the claims speak of: the points a contour array stands for, and    *)
(* the two distances, stated on those points.                              *)

\* The convention an array follows, by its shape: (N, 1, 2) or (N, 2).
FormOf(c) == IF Len(c.shape) = 3 THEN "opencv" ELSE "scikit"

\* The points <<x, y>> a contour array stands for, in order.
LogicalPoints(c) ==
    [i \in 1..c.shape[1] |->
       IF FormOf(c) = "opencv"
       THEN <<c.data[2 * i - 1], c.data[2 * i]>>
       ELSE <<c.data[2 * i], c.data[2 * i - 1]>>]

RECURSIVE SumOf(_, _)
SumOf(pts, k) == IF pts = <<>> THEN 0 ELSE pts[1][k] + SumOf(Tail(pts), k)

\* The squared distance from pos to the vertex v.
VertexDist2(v, pos) == (v[1] - pos[1]) * (v[1] - pos[1]) + (v[2] - pos[2]) * (v[2] - pos[2])

\* N*N times the squared distance from pos to the mean of the N vertices pts.
MeanDist2N2(pts, pos) ==
    LET n == Len(pts)
    IN  (n * pos[1] - SumOf(pts, 1)) * (n * pos[1] - SumOf(pts, 1))
        + (n * pos[2] - SumOf(pts, 2)) * (n * pos[2] - SumOf(pts, 2))

\* Contour p is at most as far from pos as contour q, under the policy.
AtMostAsFar(p, q, pos, edg) ==
    IF edg
    THEN \E v \in 1..Len(p) : \A u \in 1..Len(q) :
            VertexDist2(p[v], pos) <= VertexDist2(q[u], pos)
    ELSE MeanDist2N2(p, pos) * Len(q) * Len(q) <= MeanDist2N2(q, pos) * Len(p) * Len(p)

\* The indices of the contours of the collection nearest to position.
Nearest ==
    {i \in 1..Len(contours) : \A j \in 1..Len(contours) :
        AtMostAsFar(LogicalPoints(contours[i]), LogicalPoints(contours[j]),
                    position, edge)}

LowestNearest == CHOOSE i \in Nearest : \A j \in Nearest : i <= j

ClosestDone == fn = "closest_contour" /\ pc = "done"

SourceMatches == \A i \in 1..Len(contours) : FormOf(contours[i]) = source

\* C1: for a collection of two or more contours, passed with the source tag of
\* its convention, closest_contour returns the contour at the least distance
\* under the policy (mean of the vertices, or nearest vertex), the one of lowest
\* index among equals.
C1_ReturnsNearest ==
    (ClosestDone /\ Len(contours) >= 2 /\ SourceMatches)
        => (ret.kind = "return" /\ ret.value = contours[LowestNearest])

\* What the code does give for C1: the same with every contour decodable (with
\* source 'opencv', a contour of one point is not, see C6).
Decodable == \A i \in 1..Len(contours) : contour_coords(contours[i], source).kind = "return"

ReturnsNearestWhenDecodable ==
    (ClosestDone /\ Len(contours) >= 2 /\ SourceMatches /\ Decodable)
        => (ret.kind = "return" /\ ret.value = contours[LowestNearest])

\* C5: a collection of exactly one contour: that contour is returned, whatever
\* the position, the policy and the source tag, and no contour is decoded (so
\* no distance is computed).
C5_SingleContour ==
    (ClosestDone /\ Len(contours) = 1)
        => (ret.kind = "return" /\ ret.value = contours[1] /\ ret.decoded = 0)

\* C5's case: a single contour that contour_coords would refuse is returned.
C5_Witness ==
    /\ ClosestDone /\ Len(contours) = 1 /\ edge
    /\ contour_coords(contours[1], source).kind = "raise"
    /\ ret.kind = "return" /\ ret.value = contours[1]

CoordsDone == fn = "contour_coords" /\ pc = "done"

\* The 1-D array of the k-th coordinates of pts.
CoordArray(pts, k) == [shape |-> <<Len(pts)>>, data |-> [i \in 1..Len(pts) |-> pts[i][k]]]

\* C6: the (N, 2) rows (y, x) with source 'scikit' and the (N, 1, 2) array of
\* (x, y) with source 'opencv', of the same N >= 1 points, decode to the same
\* pair (x, y), each of length N in the order of the points.
C6_SameCoords ==
    (CoordsDone /\ FormOf(contour) = source)
        => LET pts == LogicalPoints(contour)
           IN  /\ ret = Return(<<CoordArray(pts, 1), CoordArray(pts, 2)>>)
               /\ contour_coords(EncodeScikit(pts), "scikit")
                    = contour_coords(EncodeOpencv(pts), "opencv")

\* What the code does give for C6: the same for N >= 2, and for N = 1 with
\* source 'scikit'.
SameCoordsFromTwoPoints ==
    (CoordsDone /\ FormOf(contour) = source
       /\ (contour.shape[1] >= 2 \/ source = "scikit"))
        => LET pts == LogicalPoints(contour)
           IN  ret = Return(<<CoordArray(pts, 1), CoordArray(pts, 2)>>)

\* C8: closest_contour returns one of the elements of the collection (the
\* contour array, not its decoded coordinates), and no call of closest_contour,
\* contour_coords or contour_properties, returning or raising, changes the
\* collection, a contour's data or the x, y arrays it was given.
C8_Frame ==
    [][/\ contours' = contours /\ contour' = contour /\ x' = x /\ y' = y
       /\ (fn = "closest_contour" /\ ret'.kind = "return")
             => \E i \in 1..Len(contours) : ret'.value = contours[i]]_vars

\* C8's case: a call on several contours returned the second one.
C8_Witness ==
    /\ ClosestDone /\ Len(contours) >= 2
    /\ ret.kind = "return" /\ ret.value = contours[2] /\ ret.value # contours[1]

----------------------------------------------------------------------------
(* Polygons, for the claims on contour_properties: the polygon of a state  *)
(* has the vertices (x[i], y[i]), the last joined to the first.            *)

PropsDone == fn = "contour_properties" /\ pc = "done"

Nxt(i) == IF i = Len(x) THEN 1 ELSE i + 1

Prv(i) == IF i = 1 THEN Len(x) ELSE i - 1

Vtx(i) == <<x[i], y[i]>>

\* (a - o) x (b - o).
Cross(o, a, b) == (a[1] - o[1]) * (b[2] - o[2]) - (a[2] - o[2]) * (b[1] - o[1])

Between(v, a, b) == (a <= v /\ v <= b) \/ (b <= v /\ v <= a)

OnSegment(p, a, b) ==
    Cross(a, b, p) = 0 /\ Between(p[1], a[1], b[1]) /\ Between(p[2], a[2], b[2])

SegmentsMeet(a, b, c, d) ==
    \/ /\ Sign(Cross(c, d, a)) * Sign(Cross(c, d, b)) < 0
       /\ Sign(Cross(a, b, c)) * Sign(Cross(a, b, d)) < 0
    \/ OnSegment(a, c, d) \/ OnSegment(b, c, d)
    \/ OnSegment(c, a, b) \/ OnSegment(d, a, b)

\* Edges i and j (edge i joins vertex i to the next) share no point but the
\* vertex consecutive edges have in common.
EdgesApart(i, j) ==
    IF Nxt(i) = j
    THEN ~OnSegment(Vtx(Nxt(j)), Vtx(i), Vtx(j)) /\ ~OnSegment(Vtx(i), Vtx(j), Vtx(Nxt(j)))
    ELSE IF Nxt(j) = i
    THEN ~OnSegment(Vtx(Nxt(i)), Vtx(j), Vtx(i)) /\ ~OnSegment(Vtx(j), Vtx(i), Vtx(Nxt(i)))
    ELSE ~SegmentsMeet(Vtx(i), Vtx(Nxt(i)), Vtx(j), Vtx(Nxt(j)))

\* A simple polygon: distinct vertices, a boundary that does not touch itself.
Simple ==
    /\ Len(x) >= 3
    /\ \A i, j \in 1..Len(x) : i < j => (Vtx(i) # Vtx(j) /\ EdgesApart(i, j))

Lattice == PolyCoords \X PolyCoords

OnBoundary(p) == \E i \in 1..Len(x) : OnSegment(p, Vtx(i), Vtx(Nxt(i)))

\* The ray from p to the right crosses the edge a-b.
RayCrosses(p, a, b) ==
    /\ (a[2] > p[2]) # (b[2] > p[2])
    /\ LET t == (p[1] - a[1]) * (b[2] - a[2]) - (p[2] - a[2]) * (b[1] - a[1])
       IN  IF b[2] > a[2] THEN t < 0 ELSE t > 0

Inside(p) ==
    /\ ~OnBoundary(p)
    /\ Cardinality({i \in 1..Len(x) : RayCrosses(p, Vtx(i), Vtx(Nxt(i)))}) % 2 = 1

\* Twice the area a simple lattice polygon encloses, by counting lattice points
\* (Pick: area = interior + boundary / 2 - 1).
TwiceEnclosedArea ==
    2 * Cardinality({p \in Lattice : Inside(p)})
      + Cardinality({p \in Lattice : OnBoundary(p)}) - 2

\* The corner of a simple polygon lowest in (y, x).
Corner ==
    CHOOSE i \in 1..Len(x) : \A j \in 1..Len(x) :
        y[i] < y[j] \/ (y[i] = y[j] /\ x[i] <= x[j])

\* With y pointing down, a positive turn at a corner of the hull is a turn to
\* the right on the screen: the vertices run clockwise.
ClockwiseInImage == Cross(Vtx(Prv(Corner)), Vtx(Corner), Vtx(Nxt(Corner))) > 0

\* sum(y[i] * dx[i] - x[i] * dy[i]) on the coordinates as given.
Shoelace ==
    IntSum([i \in 1..Len(x) |->
              y[i] * (x[Nxt(i)] - x[i]) - x[i] * (y[Nxt(i)] - y[i])])

\* The doubles are compared with the exact values to 2^-ToleranceBits.
ToleranceBits == 40

\* |f - q| <= 2^-ToleranceBits for a finite double f and a rational q.
CloseTo(f, q) ==
    /\ IsFinite(f)
    /\ LET k    == IF f.exp < 0 THEN -f.exp ELSE 0
           a    == BMul(BShl(f.man, f.exp + k), BFromNat(q.den))
           b    == BShl(BFromNat(Abs(q.num)), k)
           same == f.neg = (q.num < 0) \/ f.man = <<>> \/ q.num = 0
           diff == IF ~same THEN BAdd(a, b)
                   ELSE IF BCmp(a, b) >= 0 THEN BSub(a, b) ELSE BSub(b, a)
       IN  BCmp(BShl(diff, ToleranceBits), BShl(BFromNat(q.den), k)) <= 0

\* The mean of the whole numbers s is a double of few bits: the area is then
\* computed without any rounding.
MeanIsExact(s) == \E k \in 0..3 : (IntSum(s) * 2^k) % Len(s) = 0

\* C2: for N >= 3 vertices, 'area' is the shoelace sum of the closed polygon on
\* the coordinates as given, halved: to the rounding of the doubles in general
\* (the shift by the means, when the means are not doubles, costs the last
\* bits), exactly when the means are doubles; for a simple polygon its absolute
\* value is the area enclosed, and it is negative when the vertices run
\* clockwise in image axes, positive otherwise.
C2_SignedArea ==
    (PropsDone /\ Len(x) >= 3)
        => /\ ret.kind = "return"
           /\ CloseTo(ret.value.area, Rat(Shoelace, 2))
           /\ (MeanIsExact(x) /\ MeanIsExact(y))
                => ret.value.area = FDiv(FromInt(Shoelace), FromInt(2))
           /\ Simple =>
                /\ CloseTo(FAbs(ret.value.area), Rat(TwiceEnclosedArea, 2))
                /\ ~IsZero(ret.value.area)
                /\ ClockwiseInImage <=> ret.value.area.neg

\* C2's case: a simple polygon run clockwise whose means are not doubles, and
\* whose area is not to the last bit the half of the shoelace sum.
C2_Witness ==
    /\ PropsDone /\ Len(x) >= 3 /\ Simple /\ ClockwiseInImage
    /\ ~MeanIsExact(x)
    /\ ret.value.area.neg
    /\ ret.value.area # FDiv(FromInt(Shoelace), FromInt(2))

CrossAt(i) == x[i] * y[Nxt(i)] - x[Nxt(i)] * y[i]

\* The centroid of a closed polygon by the reference formula:
\* Cx = sum((x[i] + x[i+1]) * c[i]) / (3 * sum(c[i])), c[i] = x[i]*y[i+1] - x[i+1]*y[i],
\* and Cy alike.
ReferenceCentroid ==
    LET c6 == 3 * IntSum([i \in 1..Len(x) |-> CrossAt(i)])
    IN  <<Rat(IntSum([i \in 1..Len(x) |-> (x[i] + x[Nxt(i)]) * CrossAt(i)]), c6),
          Rat(IntSum([i \in 1..Len(x) |-> (y[i] + y[Nxt(i)]) * CrossAt(i)]), c6)>>

VertexMean == <<Rat(IntSum(x), Len(x)), Rat(IntSum(y), Len(y))>>

Reversed(s) == [i \in 1..Len(s) |-> s[Len(s) - i + 1]]

\* s started k vertices later.
Rotated(s, k) == [i \in 1..Len(s) |-> s[((i + k - 1) % Len(s)) + 1]]

\* Both coordinates of the centroid c are close to those of the point p.
CentroidCloseTo(c, p) == CloseTo(c[1], p[1]) /\ CloseTo(c[2], p[2])

\* C3: with a non-zero area, 'centroid' is, to the rounding of the doubles, the
\* centroid of the polygon by the reference formula, and so it is with the
\* vertices given the other way round and with the start moved on by one
\* vertex (the polygons checked include every rotation of each, so every
\* start follows); for a triangle it is the mean of the vertices, in general
\* it is not (C3_Witness).
C3_Centroid ==
    (PropsDone /\ Shoelace # 0)
        => /\ ret.kind = "return"
           /\ CentroidCloseTo(ret.value.centroid, ReferenceCentroid)
           /\ CentroidCloseTo(
                contour_properties(Reversed(x), Reversed(y)).value.centroid,
                ReferenceCentroid)
           /\ CentroidCloseTo(
                contour_properties(Rotated(x, 1), Rotated(y, 1)).value.centroid,
                ReferenceCentroid)
           /\ Len(x) = 3 => CentroidCloseTo(ret.value.centroid, VertexMean)

\* C3's case: a simple polygon whose centroid is not the mean of its vertices.
C3_Witness ==
    /\ PropsDone /\ Simple /\ Shoelace # 0
    /\ CentroidCloseTo(ret.value.centroid, ReferenceCentroid)
    /\ ~CentroidCloseTo(ret.value.centroid, VertexMean)

\* C4: an input whose computed area is exactly 0 ends in the error
\* DegenerateContour, never in a result with a NaN or infinite centroid.
C4_DegenerateRaises ==
    (PropsDone /\ IsZero(contour_properties(x, y).value.area))
        => (ret.kind = "raise" /\ ret.exc = "DegenerateContour")

\* What the code does give for C4: the division by the zero area is a float
\* division, and the call returns a centroid of NaN or infinite coordinates.
ZeroAreaReturnsNonFinite ==
    (PropsDone /\ IsZero(ret.value.area))
        => /\ ret.kind = "return"
           /\ ~IsFinite(ret.value.centroid[1])
           /\ ~IsFinite(ret.value.centroid[2])

----------------------------------------------------------------------------
(* The pair of contours of C7.                                             *)

PairA == LogicalPoints(contours[1])

PairB == LogicalPoints(contours[2])

\* The squared distance from position to the nearest vertex of pts.
NearestVertexDist2(pts) ==
    CHOOSE d \in {VertexDist2(pts[i], position) : i \in 1..Len(pts)} :
        \A i \in 1..Len(pts) : d <= VertexDist2(pts[i], position)

\* The first contour has a vertex farther from position than the nearest
\* vertex of the second contour.
FirstHasFartherVertex ==
    \E i \in 1..Len(PairA) :
        VertexDist2(PairA[i], position) > NearestVertexDist2(PairB)

\* C7 as stated: on the pair, the centre policy returns the first contour, and
\* the edge policy returns the second whenever the first contour has a vertex
\* farther from (1, 1) than the second contour's nearest vertex.
C7_AsStated ==
    ClosestDone
        => /\ ~edge => ret.value = contours[1]
           /\ (edge /\ FirstHasFartherVertex) => ret.value = contours[2]

\* C7 amended: on the pair, the centre policy returns the first contour, and
\* the edge policy returns the second contour exactly when the nearest vertex
\* of the second is strictly nearer to (1, 1) than the nearest vertex of the
\* first, and the first contour otherwise.
C7_Amended ==
    ClosestDone
        => /\ ret.kind = "return"
           /\ ~edge => ret.value = contours[1]
           /\ edge =>
                ret.value = (IF NearestVertexDist2(PairB) < NearestVertexDist2(PairA)
                             THEN contours[2] ELSE contours[1])

\* C7's case: the edge policy returns the second contour of a pair.
C7_Witness ==
    /\ ClosestDone /\ edge /\ FirstHasFartherVertex
    /\ NearestVertexDist2(PairB) < NearestVertexDist2(PairA)
    /\ ret.value = contours[2]
    /\ closest_contour(contours, position, FALSE, source).value = contours[1]

----------------------------------------------------------------------------
(* imcrop.                                                                 *)

CropDone == fn = "imcrop" /\ pc = "done"

\* Element k of the pixel in row r, column c of the image a (all 0-based).
Pixel(a, r, c, k) == a.data[(r * a.shape[2] + c) * Channels(a) + k + 1]

\* The zone (x, y, w, h) lies in the image: 0 <= x, x + w <= sx, 0 <= y,
\* y + h <= sy.
ZoneInside(z, im) ==
    /\ 0 <= z[1] /\ z[1] + z[3] <= im.shape[2]
    /\ 0 <= z[2] /\ z[2] + z[4] <= im.shape[1]

\* C9: imcrop(img, (x, y, w, h)) with the zone in the image returns the image
\* alone, of exactly h rows and w columns, the colour channels kept, whose pixel
\* (r, c) is the pixel (y + r, x + c) of img.  (w and h are sizes: not negative.)
C9_ImperativeCrop ==
    (CropDone /\ Len(cropzone) = 4 /\ ZoneInside(cropzone, img))
        => /\ ret.kind = "return"
           /\ ret.value.shape
                = <<cropzone[4], cropzone[3]>> \o SubSeq(img.shape, 3, Len(img.shape))
           /\ Len(ret.value.data) = cropzone[4] * cropzone[3] * Channels(img)
           /\ \A r \in 0..(cropzone[4] - 1), c \in 0..(cropzone[3] - 1),
                 k \in 0..(Channels(img) - 1) :
                 Pixel(ret.value, r, c, k)
                   = Pixel(img, cropzone[2] + r, cropzone[1] + c, k)

\* C9's case: a crop 1 wide and 2 high off the left border of a colour image.
C9_Witness ==
    /\ CropDone /\ Len(cropzone) = 4 /\ ZoneInside(cropzone, img)
    /\ img.shape = <<2, 2, 3>>
    /\ cropzone = <<1, 0, 1, 2>>
    /\ ret.value.shape = <<2, 1, 3>>
    /\ ret.value.data = <<4, 5, 6, 10, 11, 12>>

\* The zones of at least one pixel that lie in the image im.
Zones(im) ==
    {z \in (0..(im.shape[2] - 1)) \X (0..(im.shape[1] - 1))
            \X (1..im.shape[2]) \X (1..im.shape[1]) : ZoneInside(z, im)}

\* The click lies strictly inside the pixel of column px and row py, whose
\* centre is (px, py) and whose sides are 1 long.
InPixel(click, px, py) ==
    /\ 2 * Abs(click[1] - ClickRes * px) < ClickRes
    /\ 2 * Abs(click[2] - ClickRes * py) < ClickRes

\* The pixels <<column, row>> of the image im the click lies strictly inside
\* (one, or none for a click on a pixel border).
PixelsAt(click, im) ==
    {p \in (0..(im.shape[2] - 1)) \X (0..(im.shape[1] - 1)) : InPixel(click, p[1], p[2])}

\* The zone whose corner pixels are a = (x, y) and b = (x + w - 1, y + h - 1).
ZoneOfCorners(a, b) == <<a[1], a[2], b[1] - a[1] + 1, b[2] - a[2] + 1>>

\* C10: in click mode the returned w and h are at least 1, and for every zone
\* (x, y, w, h) in the image (given by its corner pixels a = (x, y) and
\* b = (x + w - 1, y + h - 1)), two clicks strictly inside a and b, in either
\* order, give that zone and the image imcrop(img, zone) gives (two clicks in
\* one pixel: a zone of 1 by 1).  img is the caller's array as the call leaves
\* it: the crop is taken after the pause, so what a handler wrote to the array
\* while the call waited is in both crops.
C10_ClickCrop ==
    (CropDone /\ Len(clicks) = 2)
        => /\ ret.kind = "return"
           /\ ret.value[2][3] >= 1 /\ ret.value[2][4] >= 1
           /\ \A i \in 1..2 :
                \A a \in PixelsAt(clicks[i], img), b \in PixelsAt(clicks[3 - i], img) :
                   (a[1] <= b[1] /\ a[2] <= b[2])
                      => ret.value = <<imcrop_imperative(img, ZoneOfCorners(a, b)).value,
                                       ZoneOfCorners(a, b)>>

\* C10's case: the lower right corner clicked first, the upper left second,
\* both off the pixel centres, for a zone 2 wide and 2 high.
C10_Witness ==
    /\ CropDone /\ Len(clicks) = 2
    /\ \E z \in Zones(img) :
          /\ z[3] = 2 /\ z[4] = 2
          /\ InPixel(clicks[2], z[1], z[2])
          /\ InPixel(clicks[1], z[1] + 1, z[2] + 1)
          /\ \A i, k \in 1..2 : clicks[i][k] % ClickRes # 0
          /\ ret.value[2] = z
          /\ ret.value[1].shape[1] = 2 /\ ret.value[1].shape[2] = 2

\* C11: closest_contour on an empty collection raises
\* ContourError('No Contours Available') whatever the position, the policy and
\* the source tag (an unrecognized one included), with no contour decoded and
\* no distance computed.
C11_EmptyRaises ==
    (ClosestDone /\ Len(contours) = 0)
        => /\ ret = NoContoursAvailable
           /\ ret.kind = "raise" /\ ret.exc = "ContourError"
           /\ ret.msg = "No Contours Available" /\ ret.decoded = 0

\* C11's case: an empty collection with the edge policy and a source tag that
\* contour_coords rejects.
C11_Witness ==
    /\ ClosestDone /\ Len(contours) = 0 /\ edge /\ position = <<1, 0>>
    /\ source = "other"
    /\ ret.exc = "ContourError"

\* C12: contour_coords raises ValueError, and returns nothing, exactly when
\* 'source' is neither 'scikit' nor 'opencv', whatever the contour; with one of
\* the two tags it never raises ValueError.
C12_InvalidSource ==
    CoordsDone
        => /\ (source \notin {"scikit", "opencv"}) => (ret = Raise("ValueError"))
           /\ (source \in {"scikit", "opencv"}) => (ret.exc # "ValueError")

\* C12's case: a contour in the scikit form, of two points or more, given with
\* the tag 'Scikit'.
C12_Witness ==
    /\ CoordsDone /\ source = "Scikit"
    /\ FormOf(contour) = "scikit" /\ contour.shape[1] >= 2
    /\ ret.kind = "raise" /\ ret.exc = "ValueError" /\ ret.value = <<>>

====
